---- MODULE Spec2Model ----
(***************************************************************************)
(* A model of read_fpod.cpp: the decoder of CPOD (.CP1/.CP3) and FPOD      *)
(* (.FP1/.FP3) click-detector files.                                       *)
(*                                                                         *)
(* Byte buffers are sequences of bytes; the source indexes them from 0,    *)
(* so buf[i] of the source is At(buf, i) here.                             *)
(***************************************************************************)
EXTENDS Integers, Sequences, FiniteSets, TLC

\* ------------------------------------------------------------------ bounds
\* largest number of full data blocks of a modelled file
MaxBlocks == 4
\* largest buffer length, offset and field size given to constructInt
MaxBufLen == 3

\* ---------------------------------------------------------------- helpers
At(buf, i) == buf[i + 1]

Pow2(n) == 2 ^ n

\* x & m, x >> k, x << k on bytes, for the masks the source uses
LowBits(x, k) == x % Pow2(k)
ShiftRight(x, k) == x \div Pow2(k)
ShiftLeft(x, k) == x * Pow2(k)
\* bit k of x, as 0 or 1
Bit(x, k) == (x \div Pow2(k)) % 2

Max(a, b) == IF a >= b THEN a ELSE b

RECURSIVE CountEq(_, _)
CountEq(buf, v) ==
    IF buf = << >> THEN 0
    ELSE (IF Head(buf) = v THEN 1 ELSE 0) + CountEq(Tail(buf), v)

\* a terminator test that wants every byte to be 255
eofAllFF(buf) == CountEq(buf, 255) = Len(buf)

\* eof: at least size-5 bytes of the block are 255 (the blocks have 10, 16 or
\* 40 bytes, so the unsigned buf.size() - 5 never wraps)
eof(buf) == CountEq(buf, 255) >= Len(buf) - 5

\* res <<= 8 on a uint32_t
Shl8(res) == (res % Pow2(24)) * 256

RECURSIVE constructIntLoop(_, _, _, _, _)
constructIntLoop(buf, offset, size, i, res) ==
    IF i >= size THEN res
    ELSE constructIntLoop(buf, offset, size, i + 1,
                          Shl8(res) + At(buf, offset + i))

constructIntGuard(buf, offset, size) == offset + size < Len(buf)

\* constructInt<uint32_t>
constructInt(buf, offset, size) ==
    IF constructIntGuard(buf, offset, size)
    THEN constructIntLoop(buf, offset, size, 0, 0)
    ELSE 0

\* the tags a file name can carry
Tags == {"CP1", "CP3", "FP1", "FP3", "XYZ"}

\* getBufsize: <<header_buf_size, data_buf_size>>
getBufsize(ext) ==
    IF ext = "CP1" THEN <<360, 10>>
    ELSE IF ext = "CP3" THEN <<720, 40>>
    ELSE <<1024, 16>>

cpod_codes(code) ==
    CASE code \in {0, 1} -> "NBHF"
      [] code \in {2, 3} -> "OtherCet"
      [] code \in {4, 5} -> "Unclassed"
      [] code \in {6, 7} -> "Sonar"

fpod_codes(code) ==
    CASE code = 0 -> "NBHF"
      [] code = 1 -> "OtherCet"
      [] code = 2 -> "Unclassed"
      [] code = 3 -> "Sonar"

getSpeciesFromCodeNoBound(code, ext) ==
    IF ext = "CP3" /\ code <= 7 THEN cpod_codes(code)
    ELSE IF ext = "FP3" THEN fpod_codes(code % 4)
    ELSE ""

getSpeciesFromCode(code, ext) ==
    IF ext = "CP3" /\ code <= 7 THEN cpod_codes(code)
    ELSE IF ext = "FP3" /\ code <= 3 THEN fpod_codes(code)
    ELSE ""


\* --------------------------------------------------------- the data blocks
\* FPOD blocks (16 bytes), told apart by their first byte
FClick1 == <<10, 0, 1, 5, 58, 7, 8, 0, 0, 0, 0, 0, 0, 33, 9, 0>>
FClick2 == <<0, 0, 201, 6, 243, 0, 255, 0, 0, 0, 5, 0, 0, 0, 4, 0>>
FTrain1 == <<249, 0, 0, 0, 0, 0, 0, 0, 0, 0, 0, 0, 0, 0, 38, 7>>
FTrain2 == <<249, 0, 0, 0, 0, 0, 0, 0, 0, 0, 0, 0, 0, 0, 13, 9>>
FWav1 == <<250, 1, 2, 3, 4, 5, 6, 7, 8, 9, 10, 11, 12, 13, 14, 0>>
FWav2 == <<250, 101, 102, 103, 104, 105, 106, 107, 108, 109, 110, 111, 112,
           113, 114, 0>>
FMinute == <<254, 0, 0, 0, 0, 0, 0, 12, 0, 0, 0, 0, 80, 81, 0, 0>>
\* blocks of no known kind: the lowest and the highest such first byte
FOther == <<184, 1, 1, 1, 1, 1, 1, 1, 1, 1, 1, 1, 1, 1, 1, 1>>
FOtherHigh == <<255, 2, 2, 2, 2, 2, 2, 2, 2, 2, 2, 2, 2, 2, 2, 2>>

FBlocks == {FClick1, FClick2, FTrain1, FTrain2, FWav1, FWav2, FMinute, FOther,
            FOtherHigh}

\* CPOD blocks of s bytes (10 for CP1, 40 for CP3), told apart by their last
\* byte; a block with at least s-5 bytes 255 is also a terminator block
CClick(s) ==
    [i \in 1..s |->
        IF i = s THEN 4
        ELSE IF i - 1 = 1 THEN 1
        ELSE IF i - 1 = 2 THEN 146
        ELSE IF i - 1 = 3 THEN 6
        ELSE IF i - 1 = 5 THEN 3
        ELSE IF i - 1 = 36 THEN 22
        ELSE 0]
CClickFF(s) == [i \in 1..s |-> IF i = s THEN 7 ELSE IF i - 1 = 5 THEN 0 ELSE 255]
CTerm(s) == [i \in 1..s |-> 255]
CMinute(s) == [i \in 1..s |-> IF i = s THEN 254 ELSE 0]
CMinuteFF(s) == [i \in 1..s |-> IF i = s THEN 254 ELSE 255]
\* click blocks with exactly s-5 and exactly s-6 bytes 255
CClickEdge(s) == [i \in 1..s |-> IF i <= s - 5 THEN 255 ELSE 9]
CClickNear(s) == [i \in 1..s |-> IF i <= s - 6 THEN 255 ELSE 8]

CBlocks(s) == {CClick(s), CClickFF(s), CTerm(s), CMinute(s), CMinuteFF(s),
               CClickEdge(s), CClickNear(s)}

\* bytes left over after the last full block: none, or a short tail
Tails == {0, 3}

\* processor versions a FPOD header can carry (byte 37 of the header)
PicVers(ext) == IF ext \in {"FP1", "FP3"} THEN {27, 28} ELSE {0}

\* ------------------------------------------------------------------- state
VARIABLES
    ext,              \* upper-case file extension (getFiletype)
    openable,         \* whether the file can be opened
    file_size,        \* std::filesystem::file_size(file)
    pic_ver,          \* header byte 37 (FPOD)
    pc,               \* position in readFPOD
    header_buf_size,
    data_buf_size,
    max_clicks,
    pos,              \* number of full data blocks read from fid
    input,            \* the blocks read so far, in order
    current_click,
    current_min,
    file_ends,
    dat,              \* the FPODData object
    out,              \* what readFPOD returns
    fn,               \* unit under test: the function called
    args,             \*   its arguments
    ret               \*   its result

vars == <<ext, openable, file_size, pic_ver, pc, header_buf_size,
          data_buf_size, max_clicks, pos, input, current_click, current_min,
          file_ends, dat, out, fn, args, ret>>

fileVars == <<ext, openable, file_size, pic_ver>>
unitVars == <<fn, args, ret>>

\* columns one row shorter than max_clicks
FPODDataShort(n) ==
    [min |-> [i \in 0..(n - 2) |-> 0],
     microsec |-> [i \in 0..(n - 2) |-> 0],
     click_no |-> [i \in 0..(n - 2) |-> i + 1],
     ncyc |-> [i \in 0..(n - 2) |-> 0],
     pkat |-> [i \in 0..(n - 2) |-> 0],
     clk_ipi_range |-> [i \in 0..(n - 2) |-> 0],
     ipi_pre_max |-> [i \in 0..(n - 2) |-> 0],
     ipi_at_max |-> [i \in 0..(n - 2) |-> 0],
     khz |-> [i \in 0..(n - 2) |-> 0],
     amp_at_max |-> [i \in 0..(n - 2) |-> 0],
     amp_reversals |-> [i \in 0..(n - 2) |-> 0],
     duration |-> [i \in 0..(n - 2) |-> <<0, 1>>],
     has_wav |-> [i \in 0..(n - 2) |-> FALSE],
     train_id |-> [i \in 0..(n - 2) |-> 0],
     species |-> [i \in 0..(n - 2) |-> ""],
     quality_level |-> [i \in 0..(n - 2) |-> 0],
     echo |-> [i \in 0..(n - 2) |-> FALSE],
     wav_data |-> << >>,
     temp_deg_c |-> << >>,
     bat1 |-> << >>,
     bat2 |-> << >>,
     last_click |-> 0]

\* FPODData::FPODData: every column has max_clicks entries
FPODData(n) ==
    [min |-> [i \in 0..(n - 1) |-> 0],
     microsec |-> [i \in 0..(n - 1) |-> 0],
     click_no |-> [i \in 0..(n - 1) |-> i + 1],
     ncyc |-> [i \in 0..(n - 1) |-> 0],
     pkat |-> [i \in 0..(n - 1) |-> 0],
     clk_ipi_range |-> [i \in 0..(n - 1) |-> 0],
     ipi_pre_max |-> [i \in 0..(n - 1) |-> 0],
     ipi_at_max |-> [i \in 0..(n - 1) |-> 0],
     khz |-> [i \in 0..(n - 1) |-> 0],
     amp_at_max |-> [i \in 0..(n - 1) |-> 0],
     amp_reversals |-> [i \in 0..(n - 1) |-> 0],
     duration |-> [i \in 0..(n - 1) |-> <<0, 1>>],
     has_wav |-> [i \in 0..(n - 1) |-> FALSE],
     train_id |-> [i \in 0..(n - 1) |-> 0],
     species |-> [i \in 0..(n - 1) |-> ""],
     quality_level |-> [i \in 0..(n - 1) |-> 0],
     echo |-> [i \in 0..(n - 1) |-> FALSE],
     wav_data |-> << >>,
     temp_deg_c |-> << >>,
     bat1 |-> << >>,
     bat2 |-> << >>,
     last_click |-> 0]

NoOut == [returned |-> FALSE, clicks |-> << >>, has_env |-> FALSE,
          env |-> << >>, wav |-> << >>]

\* the data region of a file of the given tag: n full blocks and a tail
FileSizes(e) ==
    { s \in { getBufsize(e)[1] + n * getBufsize(e)[2] + t :
                n \in 0..MaxBlocks, t \in Tails } :
        s <= getBufsize(e)[1] + MaxBlocks * getBufsize(e)[2] }
    \cup { getBufsize(e)[1] - 1 }

Idle == "idle"

Init ==
    /\ ext \in Tags
    /\ openable \in BOOLEAN
    /\ file_size \in (IF openable THEN FileSizes(ext) ELSE {0})
    /\ pic_ver \in (IF openable THEN PicVers(ext) ELSE {0})
    /\ pc = "start"
    /\ header_buf_size = 0
    /\ data_buf_size = 0
    /\ max_clicks = 0
    /\ pos = 0
    /\ input = << >>
    /\ current_click = -1
    /\ current_min = -1
    /\ file_ends = 0
    /\ dat = FPODData(0)
    /\ out = NoOut
    /\ fn = Idle
    /\ args = << >>
    /\ ret = << >>


\* ---------------------------------------------------------------- readFPOD
\* lines 481-488: resolve the sizes, open the file
Open ==
    /\ pc = "start"
    /\ header_buf_size' = getBufsize(ext)[1]
    /\ data_buf_size' = getBufsize(ext)[2]
    /\ pc' = IF openable THEN "opened" ELSE "error"
    /\ UNCHANGED <<fileVars, max_clicks, pos, input, current_click,
                   current_min, file_ends, dat, out, unitVars>>

\* max_clicks = (file_size - header_buf_size) / data_buf_size
maxClicksOf(size, hbs, dbs) == (size - hbs) \div dbs

\* lines 490-503: estimate max_clicks, read the header block, build the
\* FPODData; Rcpp::seq(1, 0) in its constructor throws when max_clicks is 0
ReadHeader ==
    /\ pc = "opened"
    /\ IF file_size < header_buf_size
       THEN /\ pc' = "error"
            /\ UNCHANGED <<max_clicks, dat>>
       ELSE /\ max_clicks' = maxClicksOf(file_size, header_buf_size,
                                         data_buf_size)
            /\ IF max_clicks' = 0
               THEN /\ pc' = "error"
                    /\ UNCHANGED dat
               ELSE /\ pc' = "dispatch"
                    /\ dat' = FPODData(max_clicks')
    /\ UNCHANGED <<fileVars, header_buf_size, data_buf_size, pos, input,
                   current_click, current_min, file_ends, out, unitVars>>

\* lines 505-513: choose the decoder by the tag
decoderOfAny(e) ==
    IF e \in {"CP1", "CP3"} THEN "cpod" ELSE "fpod"

decoderOf(e) ==
    IF e \in {"CP1", "CP3"} THEN "cpod"
    ELSE IF e \in {"FP1", "FP3"} THEN "fpod"
    ELSE "error"

Dispatch ==
    /\ pc = "dispatch"
    /\ pc' = decoderOf(ext)
    /\ UNCHANGED <<fileVars, header_buf_size, data_buf_size, max_clicks, pos,
                   input, current_click, current_min, file_ends, dat, out,
                   unitVars>>

\* a source that reports its end one full block early
moreBlocksShort == pos + 1 < max_clicks

\* the full blocks of the data region that fid has not delivered yet
moreBlocks == pos < max_clicks


\* ------------------------------------------------------------- getFPODData
\* the exponent of the leading bit of n >= 1
RECURSIVE floorLog2(_)
floorLog2(n) == IF n < 2 THEN 0 ELSE 1 + floorLog2(n \div 2)

\* line 342: ticks / 200.0 and its product with 1000.0 are IEEE doubles
\* (53-bit significand, round to nearest). 5 * ticks lies 6 or 7 binary
\* places above ticks / 25, whose significand is that of the quotient
\* ticks / 200: 6 when the quotient's significand is below 1.024.
productExponentGap(ticks) ==
    IF 25 * Pow2(floorLog2(5 * ticks)) <= 64 * ticks THEN 6 ELSE 7

\* line 342: how far the double ticks / 200.0 lies below ticks / 200, in
\* 25ths of its last place: the remainder modulo 25 of ticks * 2^(52 - E), E
\* the exponent of ticks / 25, when that is at most 12 (rounded down); 0 when
\* the quotient is exact or rounded up. Powers of 2 repeat modulo 25 with
\* period 20.
quotientShortfall(ticks) ==
    LET shift == 52 - floorLog2(5 * ticks) + productExponentGap(ticks)
        m == ((ticks % 25) * Pow2(shift % 20)) % 25
    IN IF ticks = 0 THEN 0
       ELSE IF m <= 12 THEN m
       ELSE 0

\* lines 342-343: static_cast<int>(ticks / 200.0 * 1000.0). The product
\* carries 1000 times the quotient's error and is rounded to the spacing of
\* the doubles around the integer 5 * ticks: it falls below 5 * ticks, and
\* the cast truncates it to 5 * ticks - 1, when the error exceeds half that
\* spacing, that is when 10 * shortfall > 2^gap (a shortfall of 7/25 or more
\* with gap 6, never with gap 7); otherwise the result is 5 * ticks.
microsecOf(ticks) ==
    IF ticks > 0
       /\ 10 * quotientShortfall(ticks) > Pow2(productExponentGap(ticks))
    THEN 5 * ticks - 1
    ELSE 5 * ticks

\* a decode without the branch for nibble 15
clkIpiRangeNoCap(b4) ==
    IF Bit(b4, 3) = 1 THEN ShiftLeft(LowBits(b4, 3) + 1, 3)
    ELSE LowBits(b4, 3)

\* lines 347-353: IPI-range class from the low nibble of byte 4
clkIpiRange(b4) ==
    IF LowBits(b4, 4) = 15 THEN 65
    ELSE IF Bit(b4, 3) = 1 THEN ShiftLeft(LowBits(b4, 3) + 1, 3)
    ELSE LowBits(b4, 3)

\* line 358: ((buf[13] & 240) * 16 + buf[14]) / 5, an integer division
fpodDuration(b13, b14) ==
    <<(((ShiftRight(b13, 4) * 16) * 16) + b14) \div 5, 1>>

\* lines 339-358: a click block fills row cc (the already advanced index)
fpodClick(d, cc, cm, buf) ==
    [d EXCEPT !.min[cc] = cm,
              !.microsec[cc] = microsecOf(constructInt(buf, 0, 3)),
              !.ncyc[cc] = At(buf, 3),
              !.pkat[cc] = ShiftRight(At(buf, 4), 4),
              !.clk_ipi_range[cc] = clkIpiRange(At(buf, 4)),
              !.ipi_pre_max[cc] = At(buf, 5) + 1,
              !.ipi_at_max[cc] = At(buf, 6) + 1,
              !.amp_at_max[cc] = Max(2, At(buf, 10)),
              !.amp_reversals[cc] = LowBits(At(buf, 13), 4),
              !.duration[cc] = fpodDuration(At(buf, 13), At(buf, 14))]

\* the row a train or waveform block refers to
nextClick(cc) == cc + 1

\* lines 363-366: the train fields of a train block
trainFields(buf, e) ==
    [train_id |-> At(buf, 15),
     species |-> getSpeciesFromCode(LowBits(ShiftRight(At(buf, 14), 2), 2), e),
     quality_level |-> LowBits(At(buf, 14), 2),
     echo |-> (Bit(At(buf, 14), 5) = 1)]

\* a train block that annotates the click decoded before it, when there is one
fpodTrainCurrent(d, cc, buf, e) ==
    LET t == trainFields(buf, e)
        i == IF cc >= 0 THEN cc ELSE nextClick(cc)
    IN [d EXCEPT !.train_id[i] = t.train_id,
                 !.species[i] = t.species,
                 !.quality_level[i] = t.quality_level,
                 !.echo[i] = t.echo]

fpodTrain(d, cc, buf, e) ==
    LET t == trainFields(buf, e)
        i == nextClick(cc)
    IN [d EXCEPT !.train_id[i] = t.train_id,
                 !.species[i] = t.species,
                 !.quality_level[i] = t.quality_level,
                 !.echo[i] = t.echo]

\* a chunk whose pairs are taken one byte lower: (IPI, SPL) from buf[pos+1],
\* buf[pos]
wavChunkLower(buf) ==
    [IPI |-> [j \in 1..7 |-> At(buf, (12 - 2 * (j - 1)) + 1)],
     SPL |-> [j \in 1..7 |-> At(buf, 12 - 2 * (j - 1))]]

\* lines 382-385: pos = 12, 10, ..., 0; IPI from buf[pos+1], SPL from buf[pos+2]
wavChunk(buf) ==
    [IPI |-> [j \in 1..7 |-> At(buf, (12 - 2 * (j - 1)) + 1)],
     SPL |-> [j \in 1..7 |-> At(buf, (12 - 2 * (j - 1)) + 2)]]

\* a series keyed by the index of the next click, not its number
wavKeyIndex(cc) == cc + 1

\* line 378: the key of a new series
wavKey(cc) == cc + 2

\* a waveform block that flags the click decoded before it, when there is one
fpodWavCurrent(d, cc, buf) ==
    LET i == IF cc >= 0 THEN cc ELSE nextClick(cc)
        opened == IF d.has_wav[i] # TRUE
                  THEN [d EXCEPT !.has_wav[i] = TRUE,
                                 !.wav_data = Append(@, [click |-> wavKey(cc),
                                                         chunks |-> << >>])]
                  ELSE d
        n == Len(opened.wav_data)
    IN [opened EXCEPT !.wav_data[n].chunks = Append(@, wavChunk(buf))]

\* lines 374-385: open a series on the first waveform block of the next click,
\* append the chunk to the last series
fpodWav(d, cc, buf) ==
    LET i == nextClick(cc)
        opened == IF d.has_wav[i] # TRUE
                  THEN [d EXCEPT !.has_wav[i] = TRUE,
                                 !.wav_data = Append(@, [click |-> wavKey(cc),
                                                         chunks |-> << >>])]
                  ELSE d
        n == Len(opened.wav_data)
    IN [opened EXCEPT !.wav_data[n].chunks = Append(@, wavChunk(buf))]

\* lines 393-399: which bytes hold the two battery voltages
legacyBattery(pv, buf) == pv < 28 /\ At(buf, 11) = 0 /\ At(buf, 13) # 0

\* lines 389-399
fpodMinute(d, pv, buf) ==
    [d EXCEPT !.temp_deg_c = Append(@, At(buf, 7)),
              !.bat1 = Append(@, IF legacyBattery(pv, buf)
                                 THEN At(buf, 12) ELSE At(buf, 11)),
              !.bat2 = Append(@, IF legacyBattery(pv, buf)
                                 THEN At(buf, 13) ELSE At(buf, 12))]

\* a chain whose last test is >= 254 instead of == 254
fpodKindWide(buf) ==
    IF At(buf, 0) < 184 THEN "click"
    ELSE IF At(buf, 0) = 249 THEN "train"
    ELSE IF At(buf, 0) = 250 THEN "wav"
    ELSE IF At(buf, 0) >= 254 THEN "minute"
    ELSE "other"

\* line 337 and the else-if chain: the kind of a block
fpodKind(buf) ==
    IF At(buf, 0) < 184 THEN "click"
    ELSE IF At(buf, 0) = 249 THEN "train"
    ELSE IF At(buf, 0) = 250 THEN "wav"
    ELSE IF At(buf, 0) = 254 THEN "minute"
    ELSE "other"

\* line 327: a full block is read
Read(b) ==
    /\ moreBlocks
    /\ pos' = pos + 1
    /\ input' = Append(input, b)

decoderFrame == <<fileVars, header_buf_size, data_buf_size, max_clicks, out,
                  unitVars>>

FPODClick ==
    /\ pc = "fpod"
    /\ \E b \in FBlocks :
        /\ fpodKind(b) = "click"
        /\ Read(b)
        /\ current_click' = current_click + 1
        /\ dat' = fpodClick(dat, current_click', current_min, b)
    /\ UNCHANGED <<pc, current_min, file_ends, decoderFrame>>

FPODTrain ==
    /\ pc = "fpod"
    /\ \E b \in FBlocks :
        /\ fpodKind(b) = "train"
        /\ Read(b)
        /\ dat' = fpodTrain(dat, current_click, b, ext)
    /\ UNCHANGED <<pc, current_click, current_min, file_ends, decoderFrame>>

FPODWav ==
    /\ pc = "fpod"
    /\ \E b \in FBlocks :
        /\ fpodKind(b) = "wav"
        /\ Read(b)
        /\ dat' = fpodWav(dat, current_click, b)
    /\ UNCHANGED <<pc, current_click, current_min, file_ends, decoderFrame>>

FPODMinute ==
    /\ pc = "fpod"
    /\ \E b \in FBlocks :
        /\ fpodKind(b) = "minute"
        /\ Read(b)
        /\ current_min' = current_min + 1
        /\ dat' = fpodMinute(dat, pic_ver, b)
    /\ UNCHANGED <<pc, current_click, file_ends, decoderFrame>>

FPODOther ==
    /\ pc = "fpod"
    /\ \E b \in FBlocks :
        /\ fpodKind(b) = "other"
        /\ Read(b)
    /\ UNCHANGED <<pc, current_click, current_min, file_ends, dat,
                   decoderFrame>>

\* line 404
fpodLastClickLess(cc) == cc - 1

fpodLastClick(cc) == cc

\* lines 327-335 and 404-405: the read comes back empty or short, the loop
\* ends and the last click index is reported
FPODEnd ==
    /\ pc = "fpod"
    /\ ~moreBlocks
    /\ dat' = [dat EXCEPT !.last_click = fpodLastClick(current_click)]
    /\ pc' = "toList"
    /\ UNCHANGED <<pos, input, current_click, current_min, file_ends,
                   decoderFrame>>


\* ------------------------------------------------------------- getCPODData
\* lines 437-444: the consecutive-terminator counter after a block
fileEndsAfter(fe, buf) == IF eof(buf) THEN fe + 1 ELSE 0

cpodStopsThird(fe, buf) == eof(buf) /\ fe + 1 = 3

\* line 438: the second consecutive terminator block ends the loop
cpodStops(fe, buf) == eof(buf) /\ fe + 1 = 2

\* lines 462-466: the train fields of a CP3 click block
cpodTrain(d, cc, buf, e) ==
    IF e = "CP3"
    THEN [d EXCEPT !.train_id[cc] = At(buf, 39),
                   !.species[cc] =
                       getSpeciesFromCode(ShiftRight(At(buf, 36), 3), e),
                   !.quality_level[cc] = LowBits(At(buf, 36), 2)]
    ELSE d

\* lines 458-460: duration = ncyc / khz (a double, kept as the fraction)
cpodDuration(d, cc, buf) ==
    IF At(buf, 5) > 0
    THEN [d EXCEPT !.duration[cc] = <<At(buf, 3), At(buf, 5)>>]
    ELSE d

\* lines 448-466: a click block fills row cc (the already advanced index)
cpodClick(d, cc, cm, buf, e) ==
    LET d1 == [d EXCEPT !.min[cc] = cm,
                        !.microsec[cc] = microsecOf(constructInt(buf, 0, 3)),
                        !.ncyc[cc] = At(buf, 3),
                        !.khz[cc] = At(buf, 5),
                        !.amp_at_max[cc] = At(buf, 5)]
    IN cpodTrain(cpodDuration(d1, cc, buf), cc, buf, e)

\* line 446: size_t last_byte = data_buf_size - 1
lastByte(buf) == At(buf, Len(buf) - 1)

CPODClick ==
    /\ pc = "cpod"
    /\ \E b \in CBlocks(data_buf_size) :
        /\ ~cpodStops(file_ends, b)
        /\ lastByte(b) # 254
        /\ Read(b)
        /\ file_ends' = fileEndsAfter(file_ends, b)
        /\ current_click' = current_click + 1
        /\ dat' = cpodClick(dat, current_click', current_min, b, ext)
    /\ UNCHANGED <<pc, current_min, decoderFrame>>

CPODMinute ==
    /\ pc = "cpod"
    /\ \E b \in CBlocks(data_buf_size) :
        /\ ~cpodStops(file_ends, b)
        /\ lastByte(b) = 254
        /\ Read(b)
        /\ file_ends' = fileEndsAfter(file_ends, b)
        /\ current_min' = current_min + 1
    /\ UNCHANGED <<pc, current_click, dat, decoderFrame>>

\* line 473
cpodLastClickSame(cc) == cc

cpodLastClick(cc) == cc - 1

\* lines 437-440 and 473-474: the second consecutive terminator block is read
\* and ends the loop without being decoded
CPODStop ==
    /\ pc = "cpod"
    /\ \E b \in CBlocks(data_buf_size) :
        /\ cpodStops(file_ends, b)
        /\ Read(b)
        /\ file_ends' = fileEndsAfter(file_ends, b)
    /\ dat' = [dat EXCEPT !.last_click = cpodLastClick(current_click)]
    /\ pc' = "toList"
    /\ UNCHANGED <<current_click, current_min, decoderFrame>>

\* lines 426-433 and 473-474: the read comes back empty or short
CPODEnd ==
    /\ pc = "cpod"
    /\ ~moreBlocks
    /\ dat' = [dat EXCEPT !.last_click = cpodLastClick(current_click)]
    /\ pc' = "toList"
    /\ UNCHANGED <<pos, input, current_click, current_min, file_ends,
                   decoderFrame>>

\* ------------------------------------------------------ toList, wavToList
\* lines 211-216: seq(0, last_click), or the empty filter
clickFilter(lc) == IF lc > -1 THEN [i \in 1..(lc + 1) |-> i - 1] ELSE << >>

\* lines 222-240: the row of the click table taken from index i
clickRow(d, i) ==
    [minute |-> d.min[i], microsec |-> d.microsec[i],
     click_no |-> d.click_no[i], train_id |-> d.train_id[i],
     species |-> d.species[i], quality_level |-> d.quality_level[i],
     echo |-> d.echo[i], ncyc |-> d.ncyc[i], pkat |-> d.pkat[i],
     clk_ipi_range |-> d.clk_ipi_range[i], ipi_pre_max |-> d.ipi_pre_max[i],
     ipi_at_max |-> d.ipi_at_max[i], khz |-> d.khz[i],
     amp_at_max |-> d.amp_at_max[i], amp_reversals |-> d.amp_reversals[i],
     duration |-> d.duration[i], has_wav |-> d.has_wav[i]]

clicksTable(d) ==
    LET filter == clickFilter(d.last_click)
    IN [k \in 1..Len(filter) |-> clickRow(d, filter[k])]

\* an environmental table numbered from 0
envTableZeroBased(d) ==
    [k \in 1..Len(d.temp_deg_c) |->
        [minute |-> k - 1, degC |-> d.temp_deg_c[k], bat1v |-> d.bat1[k],
         bat2v |-> d.bat2[k]]]

\* lines 242-252: one row per minute marker, minute = 1, 2, ...
envTable(d) ==
    [k \in 1..Len(d.temp_deg_c) |->
        [minute |-> k, degC |-> d.temp_deg_c[k], bat1v |-> d.bat1[k],
         bat2v |-> d.bat2[k]]]

\* lines 125-131: the 7 rows of one chunk
chunkRows(click, chunk) ==
    [j \in 1..7 |-> [click_no |-> click, IPI |-> chunk.IPI[j],
                     SPL |-> chunk.SPL[j]]]

\* the order in which wavToList walks the chunks of a series
chunkOrderForward(chunks) == chunks

\* line 124: rbegin() .. rend()
chunkOrder(chunks) ==
    [k \in 1..Len(chunks) |-> chunks[Len(chunks) + 1 - k]]

RECURSIVE seriesRows(_, _)
seriesRows(click, chunks) ==
    IF chunks = << >> THEN << >>
    ELSE chunkRows(click, Head(chunks)) \o seriesRows(click, Tail(chunks))

\* lines 123-133: the rows written, in order
RECURSIVE wavRows(_)
wavRows(wav_data) ==
    IF wav_data = << >> THEN << >>
    ELSE seriesRows(Head(wav_data).click, chunkOrder(Head(wav_data).chunks))
         \o wavRows(Tail(wav_data))

\* line 116: the size of the pre-allocated columns
wavCapacity(wav_data) == Len(wav_data) * 21

\* lines 206-258, with wavToList: the rows fit the pre-allocated columns
ToList ==
    /\ pc = "toList"
    /\ Len(wavRows(dat.wav_data)) <= wavCapacity(dat.wav_data)
    /\ out' = [returned |-> TRUE,
               clicks |-> clicksTable(dat),
               has_env |-> Len(dat.temp_deg_c) > 0,
               env |-> envTable(dat),
               wav |-> wavRows(dat.wav_data)]
    /\ pc' = "done"
    /\ UNCHANGED <<fileVars, header_buf_size, data_buf_size, max_clicks, pos,
                   input, current_click, current_min, file_ends, dat, unitVars>>

\* lines 126-129 write past the end of the pre-allocated columns: the process
\* dies of the corrupted heap, or survives until the subsetting by filter
\* (lines 142-144) rejects the indices beyond the columns' size
ToListOverflow ==
    /\ pc = "toList"
    /\ Len(wavRows(dat.wav_data)) > wavCapacity(dat.wav_data)
    /\ pc' \in {"crashed", "error"}
    /\ UNCHANGED <<fileVars, header_buf_size, data_buf_size, max_clicks, pos,
                   input, current_click, current_min, file_ends, dat, out,
                   unitVars>>

Next ==
    \/ Open
    \/ ReadHeader
    \/ Dispatch
    \/ FPODClick
    \/ FPODTrain
    \/ FPODWav
    \/ FPODMinute
    \/ FPODOther
    \/ FPODEnd
    \/ CPODClick
    \/ CPODMinute
    \/ CPODStop
    \/ CPODEnd
    \/ ToList
    \/ ToListOverflow

Spec == Init /\ [][Next]_vars

\* readFPOD is one sequential call: whenever a step is possible the next
\* statement runs
SpecFair == Spec /\ WF_vars(Next)


\* ------------------------------------------- the helpers called on their own
\* bytes the buffers given to constructInt are made of
SampleBytes == {0, 1, 2, 255}

RECURSIVE BuffersOfLen(_)
BuffersOfLen(n) ==
    IF n = 0 THEN { << >> }
    ELSE { Append(b, x) : b \in BuffersOfLen(n - 1), x \in SampleBytes }

Buffers == UNION { BuffersOfLen(n) : n \in 0..MaxBufLen }

\* click blocks with every value of byte 4
ClickBlocksByte4 == { [FClick1 EXCEPT ![5] = b4] : b4 \in 0..255 }

UnitArgs(f) ==
    IF f = "constructInt"
    THEN { <<b, o, n>> : b \in Buffers, o \in 0..MaxBufLen, n \in 0..MaxBufLen }
    ELSE IF f = "fpodClick"
    THEN { <<b>> : b \in ClickBlocksByte4 }
    ELSE { <<c, e>> : c \in 0..255, e \in Tags }

UnitInit ==
    /\ fn \in {"constructInt", "getSpeciesFromCode", "fpodClick"}
    /\ args \in UnitArgs(fn)
    /\ ret = << >>
    /\ ext = "XYZ"
    /\ openable = FALSE
    /\ file_size = 0
    /\ pic_ver = 0
    /\ pc = "unit"
    /\ header_buf_size = 0
    /\ data_buf_size = 0
    /\ max_clicks = 0
    /\ pos = 0
    /\ input = << >>
    /\ current_click = -1
    /\ current_min = -1
    /\ file_ends = 0
    /\ dat = FPODData(0)
    /\ out = NoOut

mainVars == <<fileVars, pc, header_buf_size, data_buf_size, max_clicks, pos,
              input, current_click, current_min, file_ends, dat, out>>

CallConstructInt ==
    /\ pc = "unit"
    /\ fn = "constructInt"
    /\ ret = << >>
    /\ ret' = << constructInt(args[1], args[2], args[3]) >>
    /\ UNCHANGED <<mainVars, fn, args>>

CallGetSpeciesFromCode ==
    /\ pc = "unit"
    /\ fn = "getSpeciesFromCode"
    /\ ret = << >>
    /\ ret' = << getSpeciesFromCode(args[1], args[2]) >>
    /\ UNCHANGED <<mainVars, fn, args>>

\* lines 339-358 on the first click block of a one-block file: row 0
CallFpodClick ==
    /\ pc = "unit"
    /\ fn = "fpodClick"
    /\ ret = << >>
    /\ ret' = << clickRow(fpodClick(FPODData(1), 0, -1, args[1]), 0) >>
    /\ UNCHANGED <<mainVars, fn, args>>

UnitNext ==
    \/ CallConstructInt
    \/ CallGetSpeciesFromCode
    \/ CallFpodClick

SpecUnit == UnitInit /\ [][UnitNext]_vars

\* ================================================================== claims
\* the big-endian value of bytes[offset .. offset+size-1]
RECURSIVE BigEndian(_, _, _)
BigEndian(buf, offset, size) ==
    IF size = 0 THEN 0
    ELSE BigEndian(buf, offset, size - 1) * 256 + At(buf, offset + size - 1)

Returned(f) == pc = "unit" /\ fn = f /\ ret # << >>

\* C8: constructInt returns the big-endian value of the field whenever
\* offset+size <= buffer length (so [1, 2] read at offset 0 with size 2 gives
\* 258), and 0 when offset+size exceeds the buffer length.
C8_BigEndianWithinBuffer ==
    Returned("constructInt") =>
        /\ args[2] + args[3] <= Len(args[1])
              => ret[1] = BigEndian(args[1], args[2], args[3])
        /\ args[2] + args[3] > Len(args[1]) => ret[1] = 0

Labels == {"NBHF", "OtherCet", "Unclassed", "Sonar", ""}

CpodLabel(code) ==
    IF code \in {0, 1} THEN "NBHF"
    ELSE IF code \in {2, 3} THEN "OtherCet"
    ELSE IF code \in {4, 5} THEN "Unclassed"
    ELSE IF code \in {6, 7} THEN "Sonar"
    ELSE ""

FpodLabel(code) ==
    IF code = 0 THEN "NBHF"
    ELSE IF code = 1 THEN "OtherCet"
    ELSE IF code = 2 THEN "Unclassed"
    ELSE IF code = 3 THEN "Sonar"
    ELSE ""

\* C9 as stated: the CPOD table for the CP3 tag, the FPOD table for both the
\* FP1 and the FP3 tag, the empty label beyond each table, never an error.
C9_SpeciesLookupBothFpodTags ==
    Returned("getSpeciesFromCode") =>
        /\ ret[1] \in Labels
        /\ args[2] = "CP3" => ret[1] = CpodLabel(args[1])
        /\ args[2] \in {"FP1", "FP3"} => ret[1] = FpodLabel(args[1])

\* C9 (amended): getSpeciesFromCode maps codes 0..7 by the CPOD table for the
\* CP3 tag and codes 0..3 by the FPOD table for the FP3 tag, gives the empty
\* label for every code beyond the table, and gives the empty label for every
\* code under any other tag (FP1 and CP1 included); no code raises an error.
C9_SpeciesLookup ==
    Returned("getSpeciesFromCode") =>
        /\ ret[1] \in Labels
        /\ args[2] = "CP3" => ret[1] = CpodLabel(args[1])
        /\ args[2] = "FP3" => ret[1] = FpodLabel(args[1])
        /\ args[2] \notin {"CP3", "FP3"} => ret[1] = ""

C9_Witness ==
    /\ Returned("getSpeciesFromCode")
    /\ args = <<4, "FP3">>
    /\ ret = << "" >>


\* ---------------------------------------------- reading the blocks consumed
CpodTags == {"CP1", "CP3"}
FpodTags == {"FP1", "FP3"}

\* the decoder has left its loop
Stopped == pc \in {"toList", "done"}

\* the i-th smallest element of a set of positions
NthPos(S, i) == CHOOSE p \in S : Cardinality({q \in S : q <= p}) = i

SubSeqFrom(sq, a) == SubSeq(sq, a, Len(sq))

\* FPOD: positions of the consumed blocks of each kind
FClickPos == {p \in 1..Len(input) : At(input[p], 0) < 184}
FTrainPos == {p \in 1..Len(input) : At(input[p], 0) = 249}
FWavPos == {p \in 1..Len(input) : At(input[p], 0) = 250}

\* CPOD: a terminator block, an all-0xFF block, a minute marker
IsTerminator(b) == Cardinality({i \in 1..Len(b) : b[i] = 255}) >= Len(b) - 5
AllFF(b) == \A i \in 1..Len(b) : b[i] = 255
IsMarker(b) == b[Len(b)] = 254

\* CPOD: the loop was ended by the second of two consecutive terminator blocks
StoppedByTerminators == Stopped /\ file_ends = 2

\* CPOD: positions of the consumed blocks that were decoded as clicks (the
\* block that ended the loop is consumed but not decoded)
CDecodedPos ==
    {p \in 1..Len(input) :
        /\ ~IsMarker(input[p])
        /\ ~(StoppedByTerminators /\ p = Len(input))}

\* C10: after CPOD decoding, however it ended, the reported last click index
\* is k - 2 for k blocks decoded as clicks; the click table has max(0, k - 1)
\* rows, which are the first k - 1 decoded clicks: the last one is left out.
C10_CpodLastClick ==
    (ext \in CpodTags /\ Stopped) =>
        LET k == Cardinality(CDecodedPos)
        IN /\ dat.last_click = k - 2
           /\ out.returned =>
                /\ Len(out.clicks) = Max(0, k - 1)
                /\ \A j \in 1..Len(out.clicks) :
                      /\ out.clicks[j].click_no = j
                      /\ out.clicks[j].ncyc = At(input[NthPos(CDecodedPos, j)], 3)

C10_Witness ==
    /\ ext \in CpodTags
    /\ out.returned
    /\ ~StoppedByTerminators
    /\ Cardinality(CDecodedPos) = 3
    /\ Len(out.clicks) = 2

\* C4: after FPOD decoding the reported last click index is (number of click
\* blocks read) - 1, the click table has one row per click block (none when
\* there is no click block) and its click_no column is 1, 2, ..., n.
C4_FpodClickCount ==
    (ext \in FpodTags /\ Stopped) =>
        LET n == Cardinality(FClickPos)
        IN /\ dat.last_click = n - 1
           /\ out.returned =>
                /\ Len(out.clicks) = n
                /\ \A j \in 1..n : out.clicks[j].click_no = j

C4_Witness ==
    /\ ext \in FpodTags
    /\ out.returned
    /\ Len(out.clicks) = 2
    /\ Len(input) = 4

\* C2: when decoding ends at the end of the source (no double terminator),
\* every click block that was read is a row of the click table, in both
\* decoders.
C2_TruncationKeepsClicks ==
    (out.returned /\ ~StoppedByTerminators) =>
        /\ ext \in FpodTags => Len(out.clicks) = Cardinality(FClickPos)
        /\ ext \in CpodTags => Len(out.clicks) = Cardinality(CDecodedPos)


\* ------------------------------------------------ C1: the CPOD minimal file
\* position of the first all-0xFF block consumed (0 when there is none)
FirstFF ==
    IF \E p \in 1..Len(input) : AllFF(input[p])
    THEN CHOOSE p \in 1..Len(input) :
            AllFF(input[p]) /\ \A q \in 1..(p - 1) : ~AllFF(input[q])
    ELSE 0

\* the blocks before the first all-0xFF block, and those after it
BeforeFF == SubSeq(input, 1, FirstFF - 1)
AfterFF == SubSeqFrom(input, FirstFF + 1)

\* a click block of the scenario: not a terminator, last byte not 254
IsPlainClick(b) == ~IsMarker(b) /\ ~IsTerminator(b)

PlainClicks(sq) == Cardinality({p \in 1..Len(sq) : IsPlainClick(sq[p])})

\* the second all-0xFF block follows the first at once, or the first one is
\* the last block consumed and the file goes on
SecondFFNext ==
    \/ AfterFF # << >> /\ AllFF(AfterFF[1])
    \/ AfterFF = << >> /\ moreBlocks

\* what has been consumed is the beginning of a file made of click blocks and
\* minute markers (of any content) followed by two all-0xFF blocks
ScenarioAnyMarker ==
    /\ ext \in CpodTags
    /\ FirstFF > 0
    /\ \A p \in 1..Len(BeforeFF) :
          IsPlainClick(BeforeFF[p]) \/ IsMarker(BeforeFF[p])
    /\ SecondFFNext

\* the same, with minute markers that are not terminator blocks themselves
ScenarioPlainMarker ==
    /\ ScenarioAnyMarker
    /\ \A p \in 1..Len(BeforeFF) : ~IsTerminator(BeforeFF[p])

\* nothing is read after the second all-0xFF block, and the click table has
\* one row per click block of the file
ScenarioOutcome ==
    /\ AfterFF # << >> => (Stopped /\ Len(AfterFF) = 1)
    /\ out.returned => Len(out.clicks) = PlainClicks(BeforeFF)

\* C1 as stated: n click blocks (non-terminator, last byte # 254) interleaved
\* with any minute-marker blocks, then two all-0xFF blocks, then further
\* blocks: the click table has n rows and nothing after the second all-0xFF
\* block is read.
C1_CpodScenarioAnyMarker == ScenarioAnyMarker => ScenarioOutcome

\* C1 (amended): n click blocks (non-terminator, last byte # 254) interleaved
\* with minute-marker blocks that are not terminator blocks, then two all-0xFF
\* blocks, then further blocks: decoding stops on the second all-0xFF block,
\* nothing after it is read, and the click table has exactly n rows.
C1_CpodScenario == ScenarioPlainMarker => ScenarioOutcome

C1_Witness ==
    /\ ScenarioPlainMarker
    /\ out.returned
    /\ Len(AfterFF) = 1
    /\ PlainClicks(BeforeFF) = 1
    /\ Len(out.clicks) = 1
    /\ moreBlocks

\* ------------------------------------------------ C3: next-click attachment
NoTrain == [train_id |-> 0, species |-> "", quality_level |-> 0,
            echo |-> FALSE]

\* the train blocks between click i-1's block (or the start) and click i's
TrainsBefore(i) ==
    LET here == NthPos(FClickPos, i)
        prev == IF i = 1 THEN 0 ELSE NthPos(FClickPos, i - 1)
    IN {p \in FTrainPos : prev < p /\ p < here}

LastOf(S) == CHOOSE p \in S : \A q \in S : q <= p

\* C3: the train fields of output click i are those of the last train block
\* between click i-1's block (or the stream start) and click i's block, and
\* the defaults when there is none; a train block never annotates the click
\* decoded before it.
C3_TrainAttachesToNextClick ==
    (ext \in FpodTags /\ out.returned) =>
        \A i \in 1..Len(out.clicks) :
            LET row == out.clicks[i]
                got == [train_id |-> row.train_id, species |-> row.species,
                        quality_level |-> row.quality_level,
                        echo |-> row.echo]
            IN got = (IF TrainsBefore(i) = {} THEN NoTrain
                      ELSE trainFields(input[LastOf(TrainsBefore(i))], ext))

\* minute marker, click, train, click: two clicks, the second one annotated
C3_Witness ==
    /\ ext = "FP3"
    /\ out.returned
    /\ input = <<FMinute, FClick1, FTrain1, FClick2>>
    /\ Len(out.clicks) = 2
    /\ out.clicks[1].train_id = 0
    /\ out.clicks[1].minute = 0
    /\ out.clicks[2].train_id = 7
    /\ out.clicks[2].species = "OtherCet"

\* --------------------------------------------------- C5, C6: the wav table
\* C5: an annotation whose click is never decoded leaves no trace: every
\* click number of the waveform table is a row of the click table.
C5_NoDanglingWaveform ==
    (ext \in FpodTags /\ out.returned) =>
        \A k \in 1..Len(out.wav) : out.wav[k].click_no <= Len(out.clicks)

\* number of rows written for the series before series s
RowsBefore(wd, s) ==
    LET RECURSIVE Sum(_)
        Sum(n) == IF n = 0 THEN 0 ELSE Sum(n - 1) + 7 * Len(wd[n].chunks)
    IN Sum(s - 1)

\* the chunks of all the series, in the order the series were opened and the
\* chunks appended
RECURSIVE AllChunks(_)
AllChunks(wd) ==
    IF wd = << >> THEN << >> ELSE Head(wd).chunks \o AllChunks(Tail(wd))

\* C6: the chunks are kept in the order of their waveform blocks in the
\* stream; the waveform table lists the series in the order they were opened;
\* within a series the chunk appended last comes first and the chunk appended
\* first comes last; the 7 pairs of a chunk keep their extraction order; every
\* row carries the click number of its series.
C6_WavFlatteningOrder ==
    out.returned =>
        LET wd == dat.wav_data
        IN /\ AllChunks(wd) =
                [n \in 1..Cardinality(FWavPos) |->
                    wavChunk(input[NthPos(FWavPos, n)])]
           /\ Len(out.wav) = RowsBefore(wd, Len(wd) + 1)
           /\ \A s \in 1..Len(wd) :
                LET m == Len(wd[s].chunks)
                IN \A k \in 1..m : \A j \in 1..7 :
                      out.wav[RowsBefore(wd, s) + 7 * (k - 1) + j] =
                          [click_no |-> wd[s].click,
                           IPI |-> wd[s].chunks[m + 1 - k].IPI[j],
                           SPL |-> wd[s].chunks[m + 1 - k].SPL[j]]

\* three waveform blocks for one click, the first and the third different
C6_Witness ==
    /\ out.returned
    /\ Len(dat.wav_data) = 1
    /\ Len(dat.wav_data[1].chunks) = 3
    /\ dat.wav_data[1].chunks[1] # dat.wav_data[1].chunks[3]
    /\ Len(out.wav) = 21
    /\ out.wav[1].IPI = dat.wav_data[1].chunks[3].IPI[1]

\* ------------------------------------------------------ C7: the format tag
KnownTags == {"CP1", "CP3", "FP1", "FP3"}

\* C7: the resolved (header size, record size) is (360,10) for CP1, (720,40)
\* for CP3 and (1024,16) for FP1 and FP3; under any other tag the run never
\* enters a decoder and never returns a dataset: it can only end in the error.
C7_FormatResolution ==
    /\ (pc \notin {"start", "unit"}) =>
          /\ ext = "CP1" => <<header_buf_size, data_buf_size>> = <<360, 10>>
          /\ ext = "CP3" => <<header_buf_size, data_buf_size>> = <<720, 40>>
          /\ ext \in {"FP1", "FP3"} =>
                <<header_buf_size, data_buf_size>> = <<1024, 16>>
    /\ (pc # "unit" /\ ext \notin KnownTags) =>
          /\ pc \in {"start", "opened", "dispatch", "error"}
          /\ out = NoOut
          /\ input = << >>

\* an unknown tag on a readable file with data blocks: rejected at the dispatch
C7_Witness ==
    /\ ext \notin KnownTags
    /\ pc = "error"
    /\ max_clicks > 0
    /\ out = NoOut


\* ------------------------------------------- C11: the terminator protocol
\* length of the run of terminator blocks that ends the sequence
RECURSIVE TrailingTerminators(_)
TrailingTerminators(sq) ==
    IF sq = << >> \/ ~IsTerminator(sq[Len(sq)]) THEN 0
    ELSE 1 + TrailingTerminators(SubSeq(sq, 1, Len(sq) - 1))

\* the consumed blocks but the last one
AllButLast == SubSeq(input, 1, Len(input) - 1)

CountWhere(sq, Test(_)) == Cardinality({p \in 1..Len(sq) : Test(sq[p])})

NotMarker(b) == ~IsMarker(b)

\* C11: a block is a terminator block iff at least (record size - 5) of its
\* bytes are 0xFF; the counter is 0 after a non-terminator block and the length
\* of the current run of terminator blocks otherwise; the loop is left with
\* blocks still unread iff the last two blocks consumed are both terminator
\* blocks, so terminator blocks separated by another block never end the
\* decoding; and the block that ends it is not decoded.
C11_TerminatorProtocol ==
    (ext \in CpodTags /\ pc \in {"cpod", "toList", "done"}) =>
        /\ file_ends = TrailingTerminators(input)
        /\ pc = "cpod" => TrailingTerminators(input) < 2
        /\ (Stopped /\ moreBlocks) => TrailingTerminators(input) = 2
        /\ TrailingTerminators(input) = 2 =>
              /\ Stopped
              /\ current_click + 1 = CountWhere(AllButLast, NotMarker)
              /\ current_min + 1 = CountWhere(AllButLast, IsMarker)

\* terminator, other block, terminator (with exactly size-5 bytes 0xFF): the
\* decoding goes on
C11_Witness ==
    /\ ext \in CpodTags
    /\ pc = "cpod"
    /\ Len(input) = 3
    /\ AllFF(input[1])
    /\ ~IsTerminator(input[2])
    /\ input[3] = CClickEdge(data_buf_size)
    /\ file_ends = 1
    /\ moreBlocks


\* --------------------------------------- C12, C13: the waveform series
InFpod == ext \in FpodTags /\ pc \in {"fpod", "toList", "done"}

\* number of click blocks consumed; the click with 0-based index i was made
\* by the (i+1)-th of them, index NClicks is the click still to come
NClicks == Cardinality(FClickPos)

\* the blocks between click i-1's block (or the start) and click i's block
\* (or the end of what has been consumed)
GapOf(i) ==
    LET from == IF i = 0 THEN 0 ELSE NthPos(FClickPos, i)
        to == IF i < NClicks THEN NthPos(FClickPos, i + 1) ELSE Len(input) + 1
    IN {p \in 1..Len(input) : from < p /\ p < to}

WavIn(i) == GapOf(i) \cap FWavPos

\* the click indices that waveform blocks came before
WavClicks == {i \in 0..NClicks : WavIn(i) # {}}

\* C12: has_wav of click index i is true iff a waveform block occurred between
\* click i-1's block and click i's block; there is exactly one series per such
\* click, keyed i + 1 (the click index when it was opened, plus 2); the keys
\* are strictly increasing; and the chunks of a series are those of the
\* waveform blocks of its click's gap, never of another click's.
C12_OneSeriesPerClick ==
    InFpod =>
        LET with == WavClicks
        IN /\ \A i \in 0..(max_clicks - 1) : dat.has_wav[i] = (i \in with)
           /\ Len(dat.wav_data) = Cardinality(with)
           /\ \A i \in with :
                 LET n == Cardinality({k \in with : k <= i})
                     series == dat.wav_data[n]
                     blocks == WavIn(i)
                 IN /\ series.click = i + 1
                    /\ Len(series.chunks) = Cardinality(blocks)
                    /\ \A p \in blocks :
                          series.chunks[Cardinality({q \in blocks : q <= p})]
                              = wavChunk(input[p])
           /\ \A n \in 1..(Len(dat.wav_data) - 1) :
                 dat.wav_data[n].click < dat.wav_data[n + 1].click

\* waveform, click, waveform, waveform: two series, keyed 1 and 2
C12_Witness ==
    /\ InFpod
    /\ input = <<FWav1, FClick1, FWav2, FWav1>>
    /\ Len(dat.wav_data) = 2
    /\ dat.wav_data[1].click = 1
    /\ dat.wav_data[2].click = 2
    /\ Len(dat.wav_data[2].chunks) = 2
    /\ dat.has_wav[0] /\ dat.has_wav[1]

\* the chunks in the order their waveform blocks were consumed
ChunksMade == AllChunks(dat.wav_data)

\* C13 as stated: a waveform block gives one chunk of 7 pairs taken from byte
\* offsets (13,12), (11,10), ..., (1,0), IPI from the first offset, amplitude
\* from the second.
C13_WavPairsFromLowerByte ==
    InFpod =>
        LET made == ChunksMade
            blocks == FWavPos
        IN \A p \in blocks :
            LET b == input[p]
                c == made[Cardinality({q \in blocks : q <= p})]
            IN /\ Len(c.IPI) = 7 /\ Len(c.SPL) = 7
               /\ \A j \in 1..7 : /\ c.IPI[j] = At(b, 15 - 2 * j)
                                  /\ c.SPL[j] = At(b, 14 - 2 * j)

\* C13 (amended): a waveform block gives one chunk of exactly 7 pairs taken
\* from byte offsets (13,14), (11,12), (9,10), (7,8), (5,6), (3,4), (1,2) in
\* that order, IPI from the first offset of each pair, amplitude from the
\* second.
C13_WavPairs ==
    InFpod =>
        LET made == ChunksMade
            blocks == FWavPos
        IN \A p \in blocks :
            LET b == input[p]
                c == made[Cardinality({q \in blocks : q <= p})]
            IN /\ Len(c.IPI) = 7 /\ Len(c.SPL) = 7
               /\ \A j \in 1..7 : /\ c.IPI[j] = At(b, 15 - 2 * j)
                                  /\ c.SPL[j] = At(b, 16 - 2 * j)

C13_Witness ==
    /\ InFpod
    /\ input = <<FWav1>>
    /\ dat.wav_data[1].chunks[1].IPI = <<13, 11, 9, 7, 5, 3, 1>>
    /\ dat.wav_data[1].chunks[1].SPL = <<14, 12, 10, 8, 6, 4, 2>>


\* --------------------------------------- C14: unknown FPOD discriminants
UnknownDiscriminants == (184..248) \cup (251..253) \cup {255}

\* C14: when the FPOD decoder consumes a full block whose first byte is in
\* 184..248, 251..253 or 255, the block is appended to what has been consumed
\* and the click index, the minute index, every column, the waveform series
\* and the environmental vectors stay as they were.
C14_UnknownBlocksIgnored ==
    [][(/\ ext \in FpodTags
        /\ pc = "fpod"
        /\ pos' = pos + 1
        /\ At(input'[Len(input')], 0) \in UnknownDiscriminants)
       => /\ SubSeq(input', 1, Len(input)) = input
          /\ UNCHANGED <<current_click, current_min, dat, pc>>]_vars

\* a click, a waveform block and a minute marker, then an unknown block
C14_Witness ==
    /\ ext \in FpodTags
    /\ pc = "fpod"
    /\ input = <<FClick1, FWav1, FMinute, FOtherHigh>>
    /\ pos = 4
    /\ current_click = 0
    /\ current_min = 0
    /\ dat = fpodMinute(fpodWav(fpodClick(FPODData(max_clicks), 0, -1,
                                          FClick1), 0, FWav1), pic_ver,
                        FMinute)

\* --------------------------------------- C15: minute bookkeeping
InCpod == ext \in CpodTags /\ pc \in {"cpod", "toList", "done"}

FMinutePos == {p \in 1..Len(input) : At(input[p], 0) = 254}

\* CPOD: the consumed minute markers (the block that ended the loop is
\* consumed but not decoded)
CMinutePos ==
    {p \in 1..Len(input) :
        /\ IsMarker(input[p])
        /\ ~(StoppedByTerminators /\ p = Len(input))}

\* the minute of a click made by the block at position p
MinuteAt(markers, p) == Cardinality({q \in markers : q < p}) - 1

ClickMinutes(clicks, markers) ==
    /\ current_click + 1 = Cardinality(clicks)
    /\ current_min + 1 = Cardinality(markers)
    /\ \A p \in clicks :
          dat.min[Cardinality({q \in clicks : q < p})] = MinuteAt(markers, p)
    /\ \A i \in 0..(current_click - 1) : dat.min[i] <= dat.min[i + 1]
    /\ out.returned =>
          \A k \in 1..Len(out.clicks) :
              /\ out.clicks[k].minute = MinuteAt(markers, NthPos(clicks, k))
              /\ k > 1 => out.clicks[k - 1].minute <= out.clicks[k].minute

\* C15: in both decoders the minute of every click is (number of minute
\* markers consumed before its block) - 1, hence -1 before the first marker
\* and non-decreasing down the table; the FPOD environmental table has one row
\* per minute marker, numbered 1..m in order; the CPOD decoder only counts the
\* markers and has no environmental row.
C15_MinuteBookkeeping ==
    /\ InFpod =>
          /\ ClickMinutes(FClickPos, FMinutePos)
          /\ Len(dat.temp_deg_c) = Cardinality(FMinutePos)
          /\ out.returned =>
                /\ out.has_env = (FMinutePos # {})
                /\ Len(out.env) = Cardinality(FMinutePos)
                /\ \A k \in 1..Len(out.env) :
                      /\ out.env[k].minute = k
                      /\ out.env[k].degC = At(input[NthPos(FMinutePos, k)], 7)
    /\ InCpod =>
          /\ ClickMinutes(CDecodedPos, CMinutePos)
          /\ dat.temp_deg_c = << >>
          /\ out.returned => (~out.has_env /\ out.env = << >>)

\* a click before the first marker, one after it, and a second marker
C15_Witness ==
    /\ InFpod
    /\ out.returned
    /\ input = <<FClick1, FMinute, FClick2, FMinute>>
    /\ out.clicks[1].minute = -1
    /\ out.clicks[2].minute = 0
    /\ Len(out.env) = 2
    /\ out.env[2].minute = 2

\* --------------------------------------- C16: decoded clicks are not edited
\* C16: while either decoder runs, no step changes any field of a row whose
\* click block has been decoded (index 0..current_click): a step only writes
\* rows with a larger index.
C16_DecodedRowsFrozen ==
    [][(pc \in {"fpod", "cpod"}) =>
          (\A i \in 0..(max_clicks - 1) :
              clickRow(dat', i) # clickRow(dat, i) => i > current_click)]_vars

\* a train block and a waveform block after click 0 went to row 1, which the
\* next click block then filled; row 0 kept its defaults
C16_Witness ==
    /\ ext = "FP3"
    /\ pc = "fpod"
    /\ input = <<FClick1, FTrain1, FWav1, FClick2>>
    /\ dat.train_id[0] = 0 /\ ~dat.has_wav[0]
    /\ dat.train_id[1] = 7 /\ dat.has_wav[1]
    /\ dat.ncyc[1] = At(FClick2, 3)


\* --------------------------------------- C17: the IPI-range class
IpiRangeClasses == (0..7) \cup {8, 16, 24, 32, 40, 48, 56, 65}

\* C17: for every value of byte 4 of an FPOD click block, with n its low
\* nibble, the recorded IPI-range class is 65 when n = 15, ((n & 7) + 1) << 3
\* when bit 3 of n is set and n # 15 (n = 10 gives 24), n & 7 otherwise (n = 3
\* gives 3); it lies in {0..7, 8, 16, ..., 56, 65}; the peak attenuation is
\* the high nibble of the same byte.
C17_IpiRangeDecode ==
    Returned("fpodClick") =>
        LET b4 == At(args[1], 4)
            n == b4 % 16
            row == ret[1]
        IN /\ row.clk_ipi_range = IF n = 15 THEN 65
                                  ELSE IF n >= 8 THEN ((n % 8) + 1) * 8
                                  ELSE n % 8
           /\ n = 10 => row.clk_ipi_range = 24
           /\ n = 3 => row.clk_ipi_range = 3
           /\ row.clk_ipi_range \in IpiRangeClasses
           /\ row.pkat = b4 \div 16

\* byte 4 = 0xAF: low nibble 15, high nibble 10
C17_Witness ==
    /\ Returned("fpodClick")
    /\ At(args[1], 4) = 175
    /\ ret[1].clk_ipi_range = 65
    /\ ret[1].pkat = 10


\* --------------------------------------- C18: termination and consumption
Decoding == pc \in {"fpod", "cpod"}

\* C18: every run of a decoder leaves its loop; blocks are consumed in order,
\* one per step, none twice; the FPOD decoder stops only when no full block is
\* left, the CPOD decoder only then or at the second of two consecutive
\* terminator blocks.
C18_TerminationAndConsumption ==
    /\ Decoding ~> Stopped
    /\ [][\/ (pos' = pos /\ input' = input)
          \/ (/\ Decoding
              /\ pos' = pos + 1
              /\ Len(input') = pos'
              /\ SubSeq(input', 1, pos) = input)]_vars
    /\ [](pos = Len(input) /\ pos <= max_clicks)
    /\ []((InFpod /\ Stopped) => pos = max_clicks)
    /\ []((InCpod /\ Stopped) =>
             \/ pos = max_clicks
             \/ (file_ends = 2 /\ TrailingTerminators(input) = 2))

\* the CPOD decoder stopped by two terminator blocks with blocks left unread
C18_Witness ==
    /\ InCpod
    /\ Stopped
    /\ moreBlocks
    /\ Len(input) = 3
    /\ ~IsTerminator(input[1])
    /\ IsTerminator(input[2]) /\ IsTerminator(input[3])

\* --------------------------------------- C19: index bounds of the columns
ClickColumns(d) ==
    <<d.min, d.microsec, d.click_no, d.ncyc, d.pkat, d.clk_ipi_range,
      d.ipi_pre_max, d.ipi_at_max, d.khz, d.amp_at_max, d.amp_reversals,
      d.duration, d.has_wav, d.train_id, d.species, d.quality_level, d.echo>>

\* index i is a row of every click column
InColumns(d, i) ==
    \A k \in 1..Len(ClickColumns(d)) : i \in DOMAIN ClickColumns(d)[k]

\* C19: the click columns have max_clicks rows; the index of the last click
\* written, and the index current_click + 1 that the next block would write
\* (a click block in both decoders, a train or waveform block in FPOD), lie in
\* 0 .. max_clicks - 1.
C19_ColumnIndexBounds ==
    Decoding =>
        /\ max_clicks = maxClicksOf(file_size, header_buf_size, data_buf_size)
        /\ \A k \in 1..Len(ClickColumns(dat)) :
              DOMAIN ClickColumns(dat)[k] = 0..(max_clicks - 1)
        /\ current_click >= 0 => InColumns(dat, current_click)
        /\ moreBlocks => InColumns(dat, current_click + 1)

\* three clicks then a train block that annotated the last row of the columns
C19_Witness ==
    /\ ext = "FP3"
    /\ pc = "fpod"
    /\ max_clicks = 4
    /\ input = <<FClick1, FClick2, FClick1, FTrain1>>
    /\ current_click = 2
    /\ dat.train_id[3] = 7

\* --------------------------------------- C20: capacity of the waveform table
\* C20: when the waveform series are flattened, the rows written (7 per
\* waveform block) fit the pre-sized capacity of 21 rows per series.
C20_WavRowsFitCapacity ==
    (ext \in FpodTags /\ pc \in {"toList", "done", "crashed", "error"}) =>
        Len(wavRows(dat.wav_data)) <= wavCapacity(dat.wav_data)

====
